---------------------------- MODULE Spec2Model ----------------------------
(***************************************************************************)
(* A model of family-pics-ocr: the retry loop of                           *)
(* AdaptivePhotoOCR.extract_text, the per-pair loop of                     *)
(* PhotoCollectionProcessor.process_directory, the pairing strategies of   *)
(* _create_pairs, the compact-date branch of _flexible_date_parse, the     *)
(* line filter and the code and date buckets of _parse_raw_response, and   *)
(* PatternLibrary.analyze_and_learn with _merge_metadata.                  *)
(*                                                                         *)
(* Text is modelled as a sequence of characters, each character a string   *)
(* (a character outside ASCII is written by its code point, "U+2022").     *)
(***************************************************************************)
EXTENDS Naturals, Integers, Sequences, FiniteSets, TLC

VARIABLES
    pairs,        \* process_directory: the list returned by _create_pairs
    pi,           \* process_directory: 1-based position of the for loop in pairs
    pc,           \* control point of the collection run
    side,         \* process_photo_pair: the side being processed
    attempt,      \* extract_text: the loop variable of the retry loop
    last_err,     \* extract_text: last_err
    response,     \* extract_text: response
    result,       \* extract_text: the dict it returns
    record,       \* process_photo_pair: the result dict under construction
    results_db,   \* PhotoCollectionProcessor.results_db (and the local results)
    calls,        \* observer: upstream calls made by the current extract_text
    waits,        \* observer: time.sleep calls made by the current extract_text
    n_transient,  \* observer: upstream failures with an overload/timeout signature
    n_fatal,      \* observer: upstream failures without such a signature
    failed,       \* observer: the images whose extraction ended in an exception
    pairer,       \* one call of _create_pairs: its arguments and its result
    dater,        \* one call of _flexible_date_parse: its argument and result
    parser,       \* one call of _parse_raw_response: its argument and result
    elements,     \* extract_text: the extracted_elements of the dict it returns
    discovered,   \* PhotoCollectionProcessor.pattern_library.discovered_patterns['codes']
    learner       \* one reply parsed and analysed: the reply and the results

vars == <<pairs, pi, pc, side, attempt, last_err, response, result, record,
          results_db, calls, waits, n_transient, n_fatal, failed,
          pairer, dater, parser, elements, discovered, learner>>

None == "None"
Idle == [pc |-> "idle"]

-----------------------------------------------------------------------------
(* Bounds of the model *)

\* the longest pair list a collection run is started with
MaxPairs == 2

-----------------------------------------------------------------------------
(* AdaptivePhotoOCR.extract_text *)

\* the default of the constructor's request_max_retries, which both entry
\* points (cli.py, main.py) leave untouched
request_max_retries == 6

\* the tokens the retry loop looks for in str(e).lower()
TransientTokens == {"overloaded", "529", "timeout", "temporarily unavailable"}

\* line 171, first conjunct: any(tok in msg for tok in (...)); an exception
\* is modelled by the set of signature tokens its lower-cased message holds
IsTransient_TimeoutOnly(e) == \E tok \in {"timeout"} : tok \in e.toks
IsTransient(e) == \E tok \in TransientTokens : tok \in e.toks

\* what client.messages.create can raise: an overload (HTTP 529), a timeout,
\* a temporary unavailability, a rate limit (HTTP 429, the signature
\* OCRErrorHandler.handle_api_errors looks for) and an error with no
\* transient signature at all
UpstreamErrors ==
    { [name |-> "overloaded_error",     toks |-> {"overloaded", "529"}],
      [name |-> "status_529",           toks |-> {"529"}],
      [name |-> "timeout",              toks |-> {"timeout"}],
      [name |-> "unavailable",          toks |-> {"temporarily unavailable"}],
      [name |-> "rate_limit_error",     toks |-> {"rate_limit"}],
      [name |-> "authentication_error", toks |-> {}] }

\* what ImagePreprocessor.optimize_image re-raises for an unreadable image
ImageError == [name |-> "unidentified_image", toks |-> {}]

NoError == [name |-> "None", toks |-> {}]

\* client.messages.create returning a reply
Reply == [name |-> "reply", toks |-> {}]

\* the dict of lines 182-188: the keys it holds
SuccessResult(path, s) ==
    [source_file |-> path, side |-> s,
     keys |-> {"source_file", "side", "raw_response", "timestamp",
               "extracted_elements"}]

\* the dict of line 192
ErrorResult(path, s) ==
    [source_file |-> path, side |-> s,
     keys |-> {"source_file", "side", "error", "timestamp"}]

NoResult == [source_file |-> [pair |-> 0, side |-> None], side |-> None, keys |-> {}]

\* line 190: except Exception catches every exception raised in the try block
ExceptClause_TransientOnly(e) == IsTransient(e)
ExceptClause(e) == e \in UpstreamErrors \cup {ImageError, [name |-> "runtime_error", toks |-> {}]}

-----------------------------------------------------------------------------
(* PhotoCollectionProcessor.process_directory and process_photo_pair *)

NoPath == [pair |-> 0, side |-> None]
PathOf(i, s) == [pair |-> i, side |-> s]

\* a pair as _create_pairs emits it; shape says which sides are present.
\* The id is the pair's position, the paths are named by position and side
PairOf(i, shape) ==
    [id    |-> i,
     front |-> IF shape \in {"F", "FB"} THEN PathOf(i, "front") ELSE NoPath,
     back  |-> IF shape \in {"B", "FB"} THEN PathOf(i, "back") ELSE NoPath]

PairLists ==
    UNION { { [i \in 1..n |-> PairOf(i, shapes[i])] :
                shapes \in [1..n -> {"F", "B", "FB"}] } : n \in 0..MaxPairs }

CurPath == IF side = "front" THEN pairs[pi].front ELSE pairs[pi].back

\* lines 53 and 65: .get('extracted_elements', {}) of an error result, whose
\* lists the loops of analyze_and_learn and _merge_metadata read as empty
NoElements ==
    [all_text_lines |-> << >>, potential_codes |-> << >>,
     potential_dates |-> << >>]

\* line 45: 'combined_metadata': {}
NoMetadata == [all_text |-> << >>, codes |-> << >>, dates |-> << >>]

\* lines 43-44 and 55-58: a side of the photo's dict is None or holds the
\* result of extract_text (raw, with its extracted_elements apart) and the
\* identified_patterns of the analysis
NoSide == [raw |-> NoResult, elements |-> NoElements, analysis |-> << >>]
EmptyRecord ==
    [photo_id |-> 0, front |-> NoSide, back |-> NoSide,
     combined_metadata |-> NoMetadata]

-----------------------------------------------------------------------------
(* Text: the str methods the code uses, on sequences of characters *)

UpperCase == <<"A", "B", "C", "D", "E", "F", "G", "H", "I", "J", "K", "L", "M",
               "N", "O", "P", "Q", "R", "S", "T", "U", "V", "W", "X", "Y", "Z">>
LowerCase == <<"a", "b", "c", "d", "e", "f", "g", "h", "i", "j", "k", "l", "m",
               "n", "o", "p", "q", "r", "s", "t", "u", "v", "w", "x", "y", "z">>
Digits == <<"0", "1", "2", "3", "4", "5", "6", "7", "8", "9">>

\* the characters of the model in code point order, which is the order
\* sorted() compares strings by
CodePointOrder ==
    <<"\t", "\n", " ", "#", "'", "(", ")", "-", ".", "/">> \o Digits
    \o <<":", "<", ">">> \o UpperCase \o <<"[", "]", "_">> \o LowerCase
    \o <<"U+2019", "U+2022">>

Ord(c) == CHOOSE i \in 1..Len(CodePointOrder) : CodePointOrder[i] = c

\* str.__lt__
RECURSIVE StrLess(_, _)
StrLess(a, b) ==
    IF b = << >> THEN FALSE
    ELSE IF a = << >> THEN TRUE
    ELSE IF Head(a) = Head(b) THEN StrLess(Tail(a), Tail(b))
    ELSE Ord(Head(a)) < Ord(Head(b))

\* str.lower, one character
LowerChar(c) ==
    IF \E i \in DOMAIN UpperCase : UpperCase[i] = c
    THEN LowerCase[CHOOSE i \in DOMAIN UpperCase : UpperCase[i] = c]
    ELSE c

\* str.lower
lower(s) == [i \in 1..Len(s) |-> LowerChar(s[i])]

\* the characters str.strip() removes
IsSpace(c) == c \in {" ", "\t", "\n"}

\* str.lstrip(chars)
RECURSIVE lstrip(_, _)
lstrip(s, chars) ==
    IF s # << >> /\ Head(s) \in chars THEN lstrip(Tail(s), chars) ELSE s

\* str.rstrip(chars)
RECURSIVE rstrip(_, _)
rstrip(s, chars) ==
    IF s # << >> /\ s[Len(s)] \in chars
    THEN rstrip(SubSeq(s, 1, Len(s) - 1), chars) ELSE s

\* str.strip()
strip(s) == rstrip(lstrip(s, {" ", "\t", "\n"}), {" ", "\t", "\n"})

\* str.startswith
startswith(s, pfx) == Len(s) >= Len(pfx) /\ SubSeq(s, 1, Len(pfx)) = pfx

\* sub in s
Contains(s, sub) ==
    \E i \in 1..(Len(s) + 1) :
        i + Len(sub) - 1 <= Len(s) /\ SubSeq(s, i, i + Len(sub) - 1) = sub

\* s.replace(old, ''): the occurrences of old are removed left to right
RECURSIVE remove(_, _)
remove(s, old) ==
    IF Len(s) < Len(old) THEN s
    ELSE IF startswith(s, old) THEN remove(SubSeq(s, Len(old) + 1, Len(s)), old)
    ELSE <<Head(s)>> \o remove(Tail(s), old)

-----------------------------------------------------------------------------
(* PhotoCollectionProcessor._scan_directory and _create_pairs *)

\* the most image files a scanned directory holds
MaxFiles == 4

\* names of image files a directory may hold
FileNames ==
    { <<"I", "M", "G", "_", "0", "1", "_", "b", "a", "c", "k", ".", "j", "p", "g">>,
      <<"I", "M", "G", "_", "0", "1", "_", "f", "r", "o", "n", "t", ".", "j", "p", "g">>,
      <<"I", "M", "G", "_", "0", "2", ".", "j", "p", "g">>,
      <<"I", "M", "G", "_", "0", "2", ".", "p", "n", "g">>,
      <<"i", "m", "g", "0", "1", ".", "j", "p", "g">>,
      <<"I", "M", "G", "0", "1", "f", "r", "o", "n", "t", ".", "j", "p", "g">>,
      <<"B", "a", "c", "k", "y", "a", "r", "d", ".", "j", "p", "g">>,
      <<"I", "M", "G", "_", "0", "3", "_", "b", "a", "c", "k", ".", "j", "p", "g">>,
      <<"I", "M", "G", "_", "0", "3", "_", "b", "a", "c", "k", "_", "f", "r", "o", "n", "t", ".", "j", "p", "g">> }

Directories == { d \in SUBSET FileNames : Cardinality(d) <= MaxFiles }

\* sorted(photo_files): all paths share the directory, so the names decide
RECURSIVE sorted(_)
sorted(S) ==
    IF S = {} THEN << >>
    ELSE LET least == CHOOSE x \in S : \A y \in S \ {x} : StrLess(x, y)
         IN  <<least>> \o sorted(S \ {least})

\* Path(file).stem: the name without its last suffix
stem(file) ==
    LET dot == CHOOSE i \in 1..Len(file) :
                   file[i] = "." /\ \A j \in (i+1)..Len(file) : file[j] # "."
    IN  SubSeq(file, 1, dot - 1)

\* an unset front or back (None); a file name is never empty
NoFile == << >>

FRONT == <<"f", "r", "o", "n", "t">>
BACK == <<"b", "a", "c", "k">>

\* lines 138 and 141: lower.replace(token, '').replace('_', '').strip()
AutoKey(lowered, token) == strip(remove(remove(lowered, token), <<"_">>))

\* a new entry of the defaultdict(dict): no slot is set
NoSlots == [slot \in {"front", "back", "single"} |-> NoFile]

\* grouped[key][slot] = file; grouped keeps its keys in insertion order
SetSlot(grouped, key, slot, file) ==
    IF \E i \in 1..Len(grouped) : grouped[i].key = key
    THEN LET i == CHOOSE j \in 1..Len(grouped) : grouped[j].key = key
         IN  [grouped EXCEPT ![i].slots[slot] = file]
    ELSE Append(grouped, [key |-> key, slots |-> [NoSlots EXCEPT ![slot] = file]])

\* lines 135-144: the slot and the key of one file
AddFile(grouped, file) ==
    LET base == stem(file)
        lowered == lower(base)
    IN  IF Contains(lowered, FRONT)
        THEN SetSlot(grouped, AutoKey(lowered, FRONT), "front", file)
        ELSE IF Contains(lowered, BACK)
        THEN SetSlot(grouped, AutoKey(lowered, BACK), "back", file)
        ELSE SetSlot(grouped, base, "single", file)

\* lines 134-144: the loop over the files
RECURSIVE GroupFiles(_, _)
GroupFiles(files, grouped) ==
    IF files = << >> THEN grouped
    ELSE GroupFiles(Tail(files), AddFile(grouped, Head(files)))

\* lines 147-150: the pair of one group
EmitGroup_SingleIgnored(g) ==
    [id |-> g.key, front |-> g.slots["front"], back |-> g.slots["back"]]
EmitGroup(g) ==
    IF g.slots["single"] # NoFile
    THEN [id |-> g.key, front |-> g.slots["single"], back |-> NoFile]
    ELSE [id |-> g.key, front |-> g.slots["front"], back |-> g.slots["back"]]

\* lines 131-150
AutoPairs(files) ==
    LET grouped == GroupFiles(files, << >>)
    IN  [i \in 1..Len(grouped) |-> EmitGroup(grouped[i])]

\* lines 155-159: the pair made at loop index i (0-based, step 2); the id
\* is the number that f"photo_{i//2:04d}" formats
SequentialPair_BackDropped(files, i) ==
    [id    |-> i \div 2,
     front |-> files[i + 1],
     back  |-> IF i + 2 < Len(files) THEN files[i + 2] ELSE NoFile]
SequentialPair(files, i) ==
    [id    |-> i \div 2,
     front |-> files[i + 1],
     back  |-> IF i + 1 < Len(files) THEN files[i + 2] ELSE NoFile]

\* lines 154-159: range(0, len(files), 2)
SequentialPairs(files) ==
    [k \in 1..((Len(files) + 1) \div 2) |-> SequentialPair(files, 2 * (k - 1))]

\* lines 162-163
SinglePairs(files) ==
    [k \in 1..Len(files) |-> [id |-> k - 1, front |-> files[k], back |-> NoFile]]

\* the run's variables while a single function is exercised
RunIdle ==
    /\ pairs = << >>
    /\ pi = 1
    /\ pc = "idle"
    /\ side = None
    /\ attempt = 0
    /\ last_err = NoError
    /\ response = None
    /\ result = NoResult
    /\ record = EmptyRecord
    /\ results_db = << >>
    /\ calls = 0
    /\ waits = 0
    /\ n_transient = 0
    /\ n_fatal = 0
    /\ failed = {}
    /\ elements = NoElements
    /\ discovered = << >>

\* process_directory, lines 88-89: a directory is scanned and its sorted
\* file list handed to _create_pairs with one of the three strategies
InitPairs ==
    /\ RunIdle
    /\ learner = Idle
    /\ pairer \in { [pc |-> "start", files |-> sorted(d), strategy |-> st,
                     pairs |-> << >>] :
                       d \in Directories,
                       st \in {"auto", "sequential", "single"} }
    /\ dater = Idle
    /\ parser = Idle

CreatePairsAuto ==
    /\ pairer.pc = "start"
    /\ pairer.strategy = "auto"
    /\ pairer' = [pairer EXCEPT !.pc = "done", !.pairs = AutoPairs(pairer.files)]
    /\ UNCHANGED <<pairs, pi, pc, side, attempt, last_err, response, result,
                   record, results_db, calls, waits, n_transient, n_fatal,
                   failed, dater, parser, elements,
                   discovered, learner>>

CreatePairsSequential ==
    /\ pairer.pc = "start"
    /\ pairer.strategy = "sequential"
    /\ pairer' = [pairer EXCEPT !.pc = "done",
                                !.pairs = SequentialPairs(pairer.files)]
    /\ UNCHANGED <<pairs, pi, pc, side, attempt, last_err, response, result,
                   record, results_db, calls, waits, n_transient, n_fatal,
                   failed, dater, parser, elements,
                   discovered, learner>>

CreatePairsSingle ==
    /\ pairer.pc = "start"
    /\ pairer.strategy = "single"
    /\ pairer' = [pairer EXCEPT !.pc = "done", !.pairs = SinglePairs(pairer.files)]
    /\ UNCHANGED <<pairs, pi, pc, side, attempt, last_err, response, result,
                   record, results_db, calls, waits, n_transient, n_fatal,
                   failed, dater, parser, elements,
                   discovered, learner>>

NextPairs ==
    \/ CreatePairsAuto
    \/ CreatePairsSequential
    \/ CreatePairsSingle

SpecPairs == InitPairs /\ [][NextPairs]_vars

-----------------------------------------------------------------------------
(* PatternLibrary._flexible_date_parse: the compact form *)

IsDigit(c) == c \in {"0", "1", "2", "3", "4", "5", "6", "7", "8", "9"}
DigitValue(c) == (CHOOSE i \in DOMAIN Digits : Digits[i] = c) - 1

\* \w of the re module
IsWordChar(c) ==
    \/ IsDigit(c)
    \/ c = "_"
    \/ c \in {UpperCase[i] : i \in DOMAIN UpperCase}
    \/ c \in {LowerCase[i] : i \in DOMAIN LowerCase}

\* \b before position i of s (i = Len(s) + 1: at the end)
WordBoundary(s, i) ==
    LET before == i > 1 /\ IsWordChar(s[i - 1])
        after == i <= Len(s) /\ IsWordChar(s[i])
    IN  before # after

AllDigits(s, from, n) ==
    from + n - 1 <= Len(s) /\ \A j \in from..(from + n - 1) : IsDigit(s[j])
AllSpace(s, from, n) ==
    from + n - 1 <= Len(s) /\ \A j \in from..(from + n - 1) : IsSpace(s[j])

\* int() of the digits s[from..from+n-1]
RECURSIVE int(_, _, _)
int(s, from, n) ==
    IF n = 0 THEN 0
    ELSE 10 * int(s, from, n - 1) + DigitValue(s[from + n - 1])

\* the length of the run of white space that starts at position from
RECURSIVE SpaceRun(_, _)
SpaceRun(s, from) ==
    IF from <= Len(s) /\ IsSpace(s[from]) THEN 1 + SpaceRun(s, from + 1) ELSE 0

\* the ways \b(\d{1,2})\s+(\d{1,2})'(\d{2})\b matches in s: the start and
\* the lengths of the day digits, of the white space and of the month
\* digits; \s+ is followed by a digit, so it takes the whole run
CompactMatches(s) ==
    { m \in { [start |-> i, d |-> d, ws |-> SpaceRun(s, i + d), mo |-> mo] :
                i \in 1..Len(s), d \in 1..2, mo \in 1..2 } :
        LET q == m.start + m.d + m.ws + m.mo
        IN  /\ WordBoundary(s, m.start)
            /\ AllDigits(s, m.start, m.d)
            /\ m.ws >= 1
            /\ AllDigits(s, m.start + m.d + m.ws, m.mo)
            /\ q <= Len(s) /\ s[q] = "'"
            /\ AllDigits(s, q + 1, 2)
            /\ WordBoundary(s, q + 3) }

\* re.search: the leftmost of the matches (a start has at most one: each
\* group is delimited by a character of another class)
Leftmost(matches) ==
    CHOOSE m \in matches : \A o \in matches : m.start <= o.start

IsLeap(year) == year % 4 = 0 /\ (year % 100 # 0 \/ year % 400 = 0)

DaysInMonth(year, month) ==
    IF month = 2 THEN (IF IsLeap(year) THEN 29 ELSE 28)
    ELSE IF month \in {4, 6, 9, 11} THEN 30 ELSE 31

\* whether datetime(year, month, day) is constructed or raises ValueError
ValidDate(year, month, day) ==
    /\ month \in 1..12
    /\ day >= 1
    /\ day <= DaysInMonth(year, month)

\* a number below 100 as two digits, a year as four
Pad2(n) == <<Digits[(n \div 10) + 1], Digits[(n % 10) + 1]>>
Pad4(n) == Pad2(n \div 100) \o Pad2(n % 100)

\* datetime.isoformat() of a datetime built from a date alone
isoformat(year, month, day) ==
    Pad4(year) \o <<"-">> \o Pad2(month) \o <<"-">> \o Pad2(day)
    \o <<"T", "0", "0", ":", "0", "0", ":", "0", "0">>

\* line 103: the century of a two-digit year
Century(yy) == IF yy >= 30 THEN 1900 ELSE 2000

\* the result of the general branch (lines 110-119): dateutil's fuzzy parse
\* and the bare-year search decide it; the library is not part of the model
General == [branch |-> "general"]

\* lines 100-109
flexible_date_parse(date_str) ==
    IF CompactMatches(date_str) = {} THEN General
    ELSE LET m == Leftmost(CompactMatches(date_str))
             d == int(date_str, m.start, m.d)
             mo == int(date_str, m.start + m.d + m.ws, m.mo)
             yy == int(date_str, m.start + m.d + m.ws + m.mo + 1, 2)
             year == Century(yy) + yy
         IN  IF ValidDate(year, mo, d)
             THEN [branch |-> "compact", year |-> year, month |-> mo,
                   day |-> d, iso |-> isoformat(year, mo, d)]
             ELSE General

\* a number below 100 as a person writes it, or zero-padded
Written(n, padded) ==
    IF padded \/ n >= 10 THEN Pad2(n) ELSE <<Digits[n + 1]>>

\* the compact spelling "d m'yy"
CompactDate(d, mo, yy, padded) ==
    Written(d, padded) \o <<" ">> \o Written(mo, padded) \o <<"'">> \o Pad2(yy)

\* the days tried: the ends of the range, one- and two-digit days, the
\* month lengths and their neighbours
Days == {0, 1, 3, 9, 10, 26, 28, 29, 30, 31, 32}

\* analyze_and_learn, line 69: a potential date is parsed; the strings are
\* the compact spellings of these days, months 0..13 and every two-digit year
InitDate ==
    /\ RunIdle
    /\ learner = Idle
    /\ pairer = Idle
    /\ \E d \in Days, mo \in 0..13, yy \in 0..99, padded \in BOOLEAN :
          dater = [pc |-> "start", d |-> d, mo |-> mo, yy |-> yy,
                   date_str |-> CompactDate(d, mo, yy, padded),
                   parsed |-> General]
    /\ parser = Idle

ParseDate ==
    /\ dater.pc = "start"
    /\ dater' = [dater EXCEPT !.pc = "done",
                              !.parsed = flexible_date_parse(dater.date_str)]
    /\ UNCHANGED <<pairs, pi, pc, side, attempt, last_err, response, result,
                   record, results_db, calls, waits, n_transient, n_fatal,
                   failed, pairer, parser, elements,
                   discovered, learner>>

NextDate == ParseDate

SpecDate == InitDate /\ [][NextDate]_vars

-----------------------------------------------------------------------------
(* AdaptivePhotoOCR._parse_raw_response: the lines kept in all_text_lines *)

\* the longest run of white space and bullet markers put before a line
MaxLead == 3

\* line 237-240
disallowed_prefixes ==
    { <<"h", "e", "r", "e", " ", "i", "s", " ", "t", "h", "e", " ", "t", "e",
        "x", "t">>,
      <<"h", "e", "r", "e", "U+2019", "s", " ", "t", "h", "e", " ", "t", "e",
        "x", "t">>,
      <<"t", "h", "e", " ", "r", "e", "s", "t", " ", "o", "f", " ", "t", "h",
        "e", " ", "i", "m", "a", "g", "e">>,
      <<"n", "o", " ", "o", "t", "h", "e", "r", " ", "t", "e", "x", "t", " ",
        "i", "s", " ", "v", "i", "s", "i", "b", "l", "e">>,
      <<"t", "h", "a", "t", " ", "i", "s", " ", "t", "h", "e", " ", "o", "n",
        "l", "y">>,
      <<"t", "h", "e", " ", "i", "m", "a", "g", "e", " ", "a", "p", "p", "e",
        "a", "r", "s">>,
      <<"t", "h", "i", "s", " ", "i", "m", "a", "g", "e">> }

\* str.split('\n')
RECURSIVE split_lines(_)
split_lines(s) ==
    IF \E i \in 1..Len(s) : s[i] = "\n"
    THEN LET i == CHOOSE j \in 1..Len(s) :
                      s[j] = "\n" /\ \A k \in 1..(j - 1) : s[k] # "\n"
         IN  <<SubSeq(s, 1, i - 1)>> \o split_lines(SubSeq(s, i + 1, Len(s)))
    ELSE <<s>>

\* line 225
Lines(raw_response) ==
    IF raw_response # << >> THEN split_lines(strip(raw_response)) ELSE << >>

\* line 251: line.lstrip('-• ').strip(), after the strip of line 248
Unbullet(line) == strip(lstrip(strip(line), {"-", "U+2022", " "}))

\* line 252: any(line.lower().startswith(pfx) for pfx in disallowed_prefixes)
IsDisallowed_CaseSensitive(line) ==
    \E pfx \in disallowed_prefixes : startswith(line, pfx)
IsDisallowed(line) ==
    \E pfx \in disallowed_prefixes : startswith(lower(line), pfx)

\* lines 247-255: the loop over the lines, as far as all_text_lines goes;
\* the other buckets are filled from the lines appended here and are not
\* part of the model
RECURSIVE KeepLines(_)
KeepLines(lines) ==
    IF lines = << >> THEN << >>
    ELSE IF strip(Head(lines)) = << >> THEN KeepLines(Tail(lines))
    ELSE IF IsDisallowed(Unbullet(Head(lines))) THEN KeepLines(Tail(lines))
    ELSE <<Unbullet(Head(lines))>> \o KeepLines(Tail(lines))

all_text_lines(raw_response) == KeepLines(Lines(raw_response))

\* what a reply line may start with: white space and bullet markers
LeadChars == {" ", "\t", "-", "U+2022"}
Leads == UNION { [1..n -> LeadChars] : n \in 0..MaxLead }

\* what follows: narration in several spellings, content, a lone marker,
\* nothing
Bodies ==
    { <<"T", "h", "i", "s", " ", "i", "m", "a", "g", "e", " ", "s", "h", "o",
        "w", "s", " ", "a", " ", "b", "e", "a", "c", "h">>,
      <<"T", "H", "I", "S", " ", "I", "M", "A", "G", "E">>,
      <<"H", "e", "r", "e", " ", "i", "s", " ", "t", "h", "e", " ", "t", "e",
        "x", "t", ":">>,
      <<"h", "e", "r", "e", "U+2019", "s", " ", "t", "h", "e", " ", "t", "e",
        "x", "t">>,
      <<"T", "h", "e", " ", "R", "e", "s", "t", " ", "o", "f", " ", "t", "h",
        "e", " ", "i", "m", "a", "g", "e">>,
      <<"N", "o", " ", "o", "t", "h", "e", "r", " ", "t", "e", "x", "t", " ",
        "i", "s", " ", "v", "i", "s", "i", "b", "l", "e", ".">>,
      <<"T", "h", "a", "t", " ", "i", "s", " ", "t", "h", "e", " ", "o", "n",
        "l", "y", " ", "t", "e", "x", "t">>,
      <<"t", "h", "e", " ", "i", "m", "a", "g", "e", " ", "a", "p", "p", "e",
        "a", "r", "s", " ", "o", "l", "d">>,
      <<"t", "h", "e", " ", "i", "m", "a", "g", "e">>,
      <<"K", "o", "d", "a", "k", " ", "-", " ", "1", "9", "9", "5">>,
      <<"-">>,
      <<>> }

\* a line of content
ContentLine == <<"A", "g", "f", "a", " ", "1", "2", "3">>

\* the replies: one line built from a lead, a body and a trailing blank or
\* none, alone or before or after a line of content
Replies ==
    LET probes == { lead \o body \o trail :
                      lead \in Leads, body \in Bodies, trail \in {<< >>, <<" ">>} }
    IN  probes
        \cup { ContentLine \o <<"\n">> \o l : l \in probes }
        \cup { l \o <<"\n">> \o ContentLine : l \in probes }

\* extract_text, line 187: the reply is parsed
InitParse ==
    /\ RunIdle
    /\ learner = Idle
    /\ pairer = Idle
    /\ dater = Idle
    /\ \E raw \in Replies :
          parser = [pc |-> "start", raw_response |-> raw,
                    all_text_lines |-> << >>]

ParseRawResponse ==
    /\ parser.pc = "start"
    /\ parser' = [parser EXCEPT
                     !.pc = "done",
                     !.all_text_lines = all_text_lines(parser.raw_response)]
    /\ UNCHANGED <<pairs, pi, pc, side, attempt, last_err, response, result,
                   record, results_db, calls, waits, n_transient, n_fatal,
                   failed, pairer, dater, elements, discovered, learner>>

NextParse == ParseRawResponse

SpecParse == InitParse /\ [][NextParse]_vars

-----------------------------------------------------------------------------
(* AdaptivePhotoOCR._parse_raw_response: the potential_codes and the      *)
(* potential_dates of a reply                                              *)

\* the bound on the number of lines of a reply handed to the pattern library
MaxLines == 2

AZ == { UpperCase[i] : i \in DOMAIN UpperCase }
az == { LowerCase[i] : i \in DOMAIN LowerCase }
DigitChars == { Digits[i] : i \in DOMAIN Digits }
SpaceChars == {" ", "\t", "\n"}

\* the regular expressions of lines 242-245, 266 and 269 are sequences of
\* repeated character classes: a class is a set of characters or the
\* complement of one, repeated min to max times, or min times and more
Rep(chars, min, max) ==
    [chars |-> chars, neg |-> FALSE, min |-> min, max |-> max, open |-> FALSE]
Plus(chars) ==
    [chars |-> chars, neg |-> FALSE, min |-> 1, max |-> 1, open |-> TRUE]
AtLeast(chars, min) ==
    [chars |-> chars, neg |-> FALSE, min |-> min, max |-> min, open |-> TRUE]
NotIn(chars, min, max) ==
    [chars |-> chars, neg |-> TRUE, min |-> min, max |-> max, open |-> FALSE]
Star(item) == [item EXCEPT !.min = 0, !.open = TRUE]

InClass(c, item) == (c \in item.chars) # item.neg

\* the positions a match of item that starts at p of s can end before
Step(s, item, p) ==
    LET last == IF item.open \/ p + item.max > Len(s) + 1
                THEN Len(s) + 1 ELSE p + item.max
    IN  { q \in (p + item.min)..last :
            \A i \in p..(q - 1) : InClass(s[i], item) }

\* the positions a match of items[k], items[k + 1], ... that starts at one
\* of starts can end before
RECURSIVE MatchEnds(_, _, _, _)
MatchEnds(s, items, k, starts) ==
    IF k > Len(items) THEN starts
    ELSE MatchEnds(s, items, k + 1,
                   UNION { Step(s, items[k], p) : p \in starts })

\* re.search(items, s), pattern.match(s) of a pattern that ends in $, and
\* re.search of a pattern that starts with ^ (s holds no line break)
re_search(items, s) ==
    \E p \in 1..(Len(s) + 1) : MatchEnds(s, items, 1, {p}) # {}
re_fullmatch(items, s) == (Len(s) + 1) \in MatchEnds(s, items, 1, {1})
re_prefix(items, s) == MatchEnds(s, items, 1, {1}) # {}

\* lines 241-244: code_regexes
code_regexes ==
    { << Rep(AZ, 1, 4), Rep(DigitChars, 2, 4), Rep({"-"}, 1, 1),
         Rep(DigitChars, 2, 4), Plus(SpaceChars),
         Rep({"<", "U+00AB"}, 1, 1), NotIn({">", "U+00BB"}, 1, 4),
         Rep({">", "U+00BB"}, 1, 1), Plus(SpaceChars), Rep(AZ, 2, 4) >>,
      << Rep(AZ, 2, 4), Plus(SpaceChars),
         Rep({"U+00AB", "<"}, 1, 1), NotIn({">", "U+00BB"}, 1, 4),
         Rep({">", "U+00BB"}, 1, 1), Plus(SpaceChars),
         Rep(DigitChars, 2, 4), Rep({"-"}, 1, 1), Rep(DigitChars, 2, 4) >> }

\* line 264: the characters that make a line a code
BracketChars == {"<", ">", "U+00AB", "U+00BB", "(", ")", "[", "]", "#"}
HasBracket(line) == \E i \in 1..Len(line) : line[i] \in BracketChars

\* line 266: re.search(r'[A-Z]{2,}.*\d+|^\d+[A-Z]+', line)
LooksLikeCode(line) ==
    \/ re_search(<< AtLeast(AZ, 2), Star(NotIn({"\n"}, 0, 0)),
                    Plus(DigitChars) >>, line)
    \/ re_prefix(<< Plus(DigitChars), Plus(AZ) >>, line)

\* line 269: re.search(r'\d{1,4}[-/\s]\d{1,2}[-/\s]\d{1,4}|\b\d{4}\b', line)
LooksLikeDate(line) ==
    \/ re_search(<< Rep(DigitChars, 1, 4), Rep({"-", "/"} \cup SpaceChars, 1, 1),
                    Rep(DigitChars, 1, 2), Rep({"-", "/"} \cup SpaceChars, 1, 1),
                    Rep(DigitChars, 1, 4) >>, line)
    \/ \E p \in 1..Len(line) :
         WordBoundary(line, p) /\ AllDigits(line, p, 4) /\ WordBoundary(line, p + 4)

\* lines 264-267 and 279-283: what a kept line adds to potential_codes
CodeEntries(line) ==
    (IF HasBracket(line) \/ LooksLikeCode(line) THEN <<line>> ELSE << >>)
    \o (IF \E cre \in code_regexes : re_fullmatch(cre, line)
        THEN <<line>> ELSE << >>)

\* lines 269-272: what a kept line adds to potential_dates
DateEntries(line) ==
    (IF LooksLikeDate(line) THEN <<line>> ELSE << >>)
    \o (IF CompactMatches(line) # {} THEN <<line>> ELSE << >>)

RECURSIVE Flatten(_)
Flatten(lists) ==
    IF lists = << >> THEN << >> ELSE Head(lists) \o Flatten(Tail(lists))

\* lines 224-285: the elements the pattern library and the merge read
parse_raw_response(raw_response) ==
    LET lines == all_text_lines(raw_response)
    IN  [all_text_lines |-> lines,
         potential_codes |->
             Flatten([i \in 1..Len(lines) |-> CodeEntries(lines[i])]),
         potential_dates |->
             Flatten([i \in 1..Len(lines) |-> DateEntries(lines[i])])]

-----------------------------------------------------------------------------
(* PatternLibrary: analyze_and_learn, _derive_pattern, _decompose_code *)

\* lines 79-92
PatternChar(c) ==
    IF c \in AZ THEN "A"
    ELSE IF c \in az THEN "a"
    ELSE IF c \in DigitChars THEN "D"
    ELSE IF c \in {"<", ">", "(", ")", "[", "]", "{", "}"} THEN c
    ELSE IF c \in {"-", "_", "/"} THEN c
    ELSE "?"
derive_pattern(text) == [i \in 1..Len(text) |-> PatternChar(text[i])]

\* line 95: the character class of the separator runs
SeparatorChars == {"<", ">", "(", ")", "[", "]", "-", "/"} \cup SpaceChars

\* the length of the longest prefix of s made of characters inside
\* (sep = TRUE) or outside (sep = FALSE) the class
RECURSIVE RunLength(_, _)
RunLength(s, sep) ==
    IF s = << >> \/ (Head(s) \in SeparatorChars) # sep THEN 0
    ELSE 1 + RunLength(Tail(s), sep)

\* line 95: re.split with the separator run in a capturing group returns
\* the text before the first run, then after every run the run itself and
\* the text that follows it
RECURSIVE re_split(_)
re_split(code) ==
    LET n == RunLength(code, FALSE)
        rest == SubSeq(code, n + 1, Len(code))
        m == RunLength(rest, TRUE)
    IN  IF rest = << >> THEN <<SubSeq(code, 1, n)>>
        ELSE <<SubSeq(code, 1, n), SubSeq(rest, 1, m)>>
             \o re_split(SubSeq(rest, m + 1, Len(rest)))

\* lines 94-96
decompose_code(code) == SelectSeq(re_split(code), LAMBDA c : strip(c) # << >>)

\* a dict in insertion order: d[key] = value replaces the value of a key
\* that is present where it stands and appends a key that is not
SetItem(d, key, value) ==
    IF \E i \in 1..Len(d) : d[i].key = key
    THEN [i \in 1..Len(d) |->
            IF d[i].key = key THEN [key |-> key, value |-> value] ELSE d[i]]
    ELSE Append(d, [key |-> key, value |-> value])

\* line 60
LearnPattern_Deduplicated(codes, pattern) ==
    IF \E i \in 1..Len(codes) : codes[i] = pattern THEN codes
    ELSE Append(codes, pattern)
LearnPattern(codes, pattern) == Append(codes, pattern)

\* lines 57-65: the loop over potential_codes; lib.codes is
\* discovered_patterns['codes'], lib.identified_patterns the mapping of the
\* analysis
RECURSIVE LearnCodes(_, _)
LearnCodes(codes, lib) ==
    IF codes = << >> THEN lib
    ELSE LET code == Head(codes)
             pattern == derive_pattern(code)
         IN  LearnCodes(Tail(codes),
                 IF pattern # << >>
                 THEN [codes |-> LearnPattern(lib.codes, pattern),
                       identified_patterns |->
                           SetItem(lib.identified_patterns, code,
                                   [type |-> "code", pattern |-> pattern,
                                    components |-> decompose_code(code)])]
                 ELSE lib)

\* lines 115-118: re.search(r'\b(19|20)\d{2}\b', date_str) and the dict
\* built from the year it finds
YearMatches(date_str) ==
    { p \in 1..Len(date_str) :
        /\ WordBoundary(date_str, p)
        /\ AllDigits(date_str, p, 4)
        /\ <<date_str[p], date_str[p + 1]>> \in {<<"1", "9">>, <<"2", "0">>}
        /\ WordBoundary(date_str, p + 4) }
YearOnly(date_str) ==
    LET p == CHOOSE q \in YearMatches(date_str) :
                 \A r \in YearMatches(date_str) : q <= r
        year == int(date_str, p, 4)
    IN  [branch |-> "year", year |-> year,
         iso |-> Pad4(year) \o <<"-", "0", "1", "-", "0", "1">>]

\* lines 98-119: _flexible_date_parse. The compact branch is computed;
\* whether date_parser.parse of line 111 returns a date or raises is the
\* choice fallback[date_str], and when it raises the year alone is looked
\* for; None is returned when there is none
NoDate == [branch |-> "none"]
ParseDateString(date_str, fallback) ==
    LET parsed == flexible_date_parse(date_str)
    IN  IF parsed.branch = "compact" THEN parsed
        ELSE IF fallback[date_str] THEN General
        ELSE IF YearMatches(date_str) # {} THEN YearOnly(date_str)
        ELSE NoDate

\* lines 68-75: the loop over potential_dates
RECURSIVE LearnDates(_, _, _)
LearnDates(dates, identified_patterns, fallback) ==
    IF dates = << >> THEN identified_patterns
    ELSE LET date_str == Head(dates)
             parsed_date == ParseDateString(date_str, fallback)
         IN  LearnDates(Tail(dates),
                 IF parsed_date # NoDate
                 THEN SetItem(identified_patterns, date_str,
                              [type |-> "date", parsed |-> parsed_date,
                               original |-> date_str])
                 ELSE identified_patterns,
                 fallback)

\* lines 49-77; codes is discovered_patterns['codes'] before the call
analyze_and_learn(extracted_elements, codes, fallback) ==
    LET lib == LearnCodes(extracted_elements.potential_codes,
                          [codes |-> codes, identified_patterns |-> << >>])
    IN  [codes |-> lib.codes,
         identified_patterns |->
             LearnDates(extracted_elements.potential_dates,
                        lib.identified_patterns, fallback)]

\* the outcomes of date_parser.parse for the dates of one call
Fallbacks(extracted_elements) ==
    LET dates == extracted_elements.potential_dates
    IN  [{ dates[i] : i \in 1..Len(dates) } -> BOOLEAN]

\* processor.py lines 184-188: the records of one type, in the order of
\* the mapping
OfType(identified_patterns, type) ==
    LET hits == SelectSeq(identified_patterns,
                          LAMBDA item : item.value.type = type)
    IN  [i \in 1..Len(hits) |-> hits[i].value]

\* processor.py lines 179-188: one side is collected
CollectSide(metadata, s) ==
    IF s = NoSide THEN metadata
    ELSE [all_text |-> metadata.all_text \o s.elements.all_text_lines,
          codes |-> metadata.codes \o OfType(s.analysis, "code"),
          dates |-> metadata.dates \o OfType(s.analysis, "date")]

\* processor.py lines 167-190
merge_metadata(photo) ==
    CollectSide(CollectSide(NoMetadata, photo.front), photo.back)

-----------------------------------------------------------------------------
(* The collection run: process_directory, process_photo_pair, extract_text *)

\* the replies of the upstream model in the run: one line that is no code,
\* and two lines that are the same code
RunReplies ==
    { <<"a", "b">>,
      <<"A", "B", "1", "\n", "A", "B", "1">> }

\* extract_text, line 187: what _parse_raw_response makes of them
RunElements == { parse_raw_response(raw_response) : raw_response \in RunReplies }

Init ==
    /\ pairs \in PairLists
    /\ pi = 1
    /\ pc = "loop"
    /\ side = None
    /\ attempt = 0
    /\ last_err = NoError
    /\ response = None
    /\ result = NoResult
    /\ record = EmptyRecord
    /\ results_db = << >>
    /\ calls = 0
    /\ waits = 0
    /\ n_transient = 0
    /\ n_fatal = 0
    /\ failed = {}
    /\ elements = NoElements
    /\ discovered = << >>
    /\ pairer = Idle
    /\ dater = Idle
    /\ parser = Idle
    /\ learner = Idle

\* process_directory, lines 92-97: the loop takes the next pair and
\* process_photo_pair builds the empty result dict (lines 41-46)
NextPair ==
    /\ pc = "loop"
    /\ pi <= Len(pairs)
    /\ record' = [EmptyRecord EXCEPT !.photo_id = pairs[pi].id]
    /\ side' = "front"
    /\ pc' = "side"
    /\ UNCHANGED <<pairs, pi, attempt, last_err, response, result, results_db,
                   calls, waits, n_transient, n_fatal, failed, pairer, dater, parser, elements,
                   discovered, learner>>

\* where process_photo_pair goes after a side: the back after the front,
\* the merge after the back
AfterSide_SkipBack(s) == [side |-> s, pc |-> "merge"]
AfterSide(s) ==
    IF s = "front" THEN [side |-> "back", pc |-> "side"]
                   ELSE [side |-> s, pc |-> "merge"]

\* lines 49 and 61 with the path set: extract_text is entered
BeginSide ==
    /\ pc = "side"
    /\ CurPath # NoPath
    /\ pc' = "optimize"
    /\ attempt' = 0
    /\ last_err' = NoError
    /\ response' = None
    /\ result' = NoResult
    /\ calls' = 0
    /\ waits' = 0
    /\ n_transient' = 0
    /\ n_fatal' = 0
    /\ UNCHANGED <<pairs, pi, side, record, results_db, failed, pairer, dater, parser, elements,
                   discovered, learner>>

\* lines 49 and 61 with the path unset
SkipSide ==
    /\ pc = "side"
    /\ CurPath = NoPath
    /\ side' = AfterSide(side).side
    /\ pc' = AfterSide(side).pc
    /\ UNCHANGED <<pairs, pi, attempt, last_err, response, result, record,
                   results_db, calls, waits, n_transient, n_fatal,
                   failed, pairer, dater, parser, elements,
                   discovered, learner>>

\* an exception e raised inside the try block of extract_text (line 136):
\* the handler of lines 190-192 returns the error dict; an exception the
\* handler does not catch leaves extract_text, process_photo_pair and
\* process_directory, none of which has a handler of its own
Raise(e) ==
    IF ExceptClause(e)
    THEN /\ result' = ErrorResult(CurPath, side)
         /\ failed' = failed \cup {CurPath}
         /\ pc' = "extracted"
    ELSE /\ result' = NoResult
         /\ failed' = failed \cup {CurPath}
         /\ pc' = "aborted"

\* line 137: optimize_image returns the bytes or re-raises
OptimizeImage ==
    /\ pc = "optimize"
    /\ \E readable \in BOOLEAN :
         IF readable
         THEN /\ pc' = "call"
              /\ UNCHANGED <<result, failed>>
         ELSE Raise(ImageError)
    /\ UNCHANGED <<pairs, pi, side, attempt, last_err, response, record,
                   results_db, calls, waits, n_transient, n_fatal,
                   pairer, dater, parser, elements,
                   discovered, learner>>

\* line 171: the retry condition
ShouldRetry_OffByOne(e, a) == IsTransient(e) /\ a < request_max_retries
ShouldRetry(e, a) == IsTransient(e) /\ a < request_max_retries - 1

\* the signatures the observer counts as transient: those of an overload
\* or a timeout
HasTransientSignature(e) ==
    e.toks \cap {"overloaded", "529", "timeout", "temporarily unavailable"} # {}

\* line 179, reached when the loop ends without a response
RuntimeError == [name |-> "runtime_error", toks |-> {}]

\* lines 144-189: one pass of the retry loop up to the sleep: the upstream
\* call, on success the break and the return of the result dict, on failure
\* the retry decision; a loop that has run out of attempts raises last_err
UpstreamCall ==
    /\ pc = "call"
    /\ IF attempt < request_max_retries
       THEN /\ calls' = calls + 1
            /\ \E o \in {Reply} \cup UpstreamErrors :
                 IF o = Reply
                 THEN /\ response' = "reply"
                      /\ result' = SuccessResult(CurPath, side)
                      /\ elements' \in RunElements
                      /\ pc' = "extracted"
                      /\ UNCHANGED <<last_err, n_transient, n_fatal, failed>>
                 ELSE /\ last_err' = o
                      /\ response' = response
                      /\ elements' = elements
                      /\ n_transient' = n_transient
                            + (IF HasTransientSignature(o) THEN 1 ELSE 0)
                      /\ n_fatal' = n_fatal
                            + (IF HasTransientSignature(o) THEN 0 ELSE 1)
                      /\ IF ShouldRetry(o, attempt)
                         THEN /\ pc' = "sleep"
                              /\ UNCHANGED <<result, failed>>
                         ELSE Raise(o)
       ELSE /\ Raise(IF last_err # NoError THEN last_err ELSE RuntimeError)
            /\ UNCHANGED <<calls, last_err, response, n_transient, n_fatal,
                           elements>>
    /\ UNCHANGED <<pairs, pi, side, attempt, record, results_db, waits,
                   pairer, dater, parser, discovered, learner>>

\* lines 172-176: the jittered delay is slept and the loop continues
BackoffWait ==
    /\ pc = "sleep"
    /\ waits' = waits + 1
    /\ attempt' = attempt + 1
    /\ pc' = "call"
    /\ UNCHANGED <<pairs, pi, side, last_err, response, result, record,
                   results_db, calls, n_transient, n_fatal,
                   failed, pairer, dater, parser, elements,
                   discovered, learner>>

\* processor.py lines 52-58 and 64-70: analyze_and_learn is called on the
\* result's extracted_elements (an empty dict for an error result) and the
\* result and the analysis are stored in the photo's dict. analyze_and_learn
\* raises nothing: its loops run over lists of strings and
\* _flexible_date_parse catches what its parsers raise
StoreSide ==
    /\ pc = "extracted"
    /\ \E fallback \in Fallbacks(elements) :
         LET a == analyze_and_learn(elements, discovered, fallback)
         IN  /\ discovered' = a.codes
             /\ record' = [record EXCEPT
                             ![side] = [raw |-> result, elements |-> elements,
                                        analysis |-> a.identified_patterns]]
    /\ elements' = NoElements
    /\ side' = AfterSide(side).side
    /\ pc' = AfterSide(side).pc
    /\ attempt' = 0
    /\ last_err' = NoError
    /\ response' = None
    /\ result' = NoResult
    /\ calls' = 0
    /\ waits' = 0
    /\ n_transient' = 0
    /\ n_fatal' = 0
    /\ UNCHANGED <<pairs, pi, results_db, failed, pairer, dater, parser,
                   learner>>

\* processor.py lines 73-75 and 98-99: the metadata of the two sides is
\* merged, the photo's dict is returned and appended
AppendRecord ==
    /\ pc = "merge"
    /\ results_db' = Append(results_db,
                            [record EXCEPT
                               !.combined_metadata = merge_metadata(record)])
    /\ record' = EmptyRecord
    /\ pi' = pi + 1
    /\ side' = None
    /\ pc' = "loop"
    /\ UNCHANGED <<pairs, attempt, last_err, response, result, calls, waits,
                   n_transient, n_fatal, failed, pairer, dater, parser, elements,
                   discovered, learner>>

\* lines 101-110: the loop is over, the tables and the report are written
FinishRun ==
    /\ pc = "loop"
    /\ pi > Len(pairs)
    /\ pc' = "done"
    /\ UNCHANGED <<pairs, pi, side, attempt, last_err, response, result,
                   record, results_db, calls, waits, n_transient, n_fatal,
                   failed, pairer, dater, parser, elements,
                   discovered, learner>>

Next ==
    \/ NextPair
    \/ BeginSide
    \/ SkipSide
    \/ OptimizeImage
    \/ UpstreamCall
    \/ BackoffWait
    \/ StoreSide
    \/ AppendRecord
    \/ FinishRun

Spec == Init /\ [][Next]_vars

-----------------------------------------------------------------------------
(* One reply through _parse_raw_response and analyze_and_learn *)

\* the lines of the replies handed to the library: codes with separators,
\* a code that is a compact date, a code that holds a year, a code that
\* holds digits a date parser may or may not read, a line of the special
\* template, a line that is neither a code nor a date
LearnLines ==
    { <<"A", "B", "-", "1", "2">>,
      <<"A", "B", " ", "2", "6", " ", "6", "'", "9", "5">>,
      <<"<", "1", "2", ">", " ", "X">>,
      <<"(", "1", "9", "9", "5", ")">>,
      <<"A", "B", " ", "1", "-", "2", "-", "3">>,
      <<"M", "F", "1", "2", "-", "3", "4", " ", "<", "5", ">", " ", "A", "B">>,
      <<"A", "g", "f", "a", " ", "1", "2", "3">> }

RECURSIVE JoinLines(_)
JoinLines(lines) ==
    IF lines = << >> THEN << >>
    ELSE IF Len(lines) = 1 THEN Head(lines)
    ELSE Head(lines) \o <<"\n">> \o JoinLines(Tail(lines))

LearnReplies ==
    UNION { { JoinLines(lines) : lines \in [1..n -> LearnLines] } :
            n \in 0..MaxLines }

\* extract_text, line 181: a reply is about to be parsed
InitLearn ==
    /\ RunIdle
    /\ pairer = Idle
    /\ dater = Idle
    /\ parser = Idle
    /\ learner \in { [pc |-> "start", raw_response |-> raw,
                      extracted_elements |-> NoElements, codes |-> << >>,
                      identified_patterns |-> << >>] : raw \in LearnReplies }

\* extract_text, line 187
ExtractElements ==
    /\ learner.pc = "start"
    /\ learner' = [learner EXCEPT
                     !.pc = "parsed",
                     !.extracted_elements = parse_raw_response(learner.raw_response)]
    /\ UNCHANGED <<pairs, pi, pc, side, attempt, last_err, response, result,
                   record, results_db, calls, waits, n_transient, n_fatal,
                   failed, pairer, dater, parser, elements, discovered>>

\* processor.py lines 52-54: the library of a new processor analyses them
AnalyzeAndLearn ==
    /\ learner.pc = "parsed"
    /\ \E fallback \in Fallbacks(learner.extracted_elements) :
         LET a == analyze_and_learn(learner.extracted_elements, << >>, fallback)
         IN  learner' = [learner EXCEPT
                           !.pc = "done",
                           !.codes = a.codes,
                           !.identified_patterns = a.identified_patterns]
    /\ UNCHANGED <<pairs, pi, pc, side, attempt, last_err, response, result,
                   record, results_db, calls, waits, n_transient, n_fatal,
                   failed, pairer, dater, parser, elements, discovered>>

NextLearn ==
    \/ ExtractElements
    \/ AnalyzeAndLearn

SpecLearn == InitLearn /\ [][NextLearn]_vars

-----------------------------------------------------------------------------
(* Properties of the retry loop and of the collection run, under Spec *)

Succeeded(r) == "extracted_elements" \in r.keys /\ "error" \notin r.keys
Errored(r) == "error" \in r.keys /\ "extracted_elements" \notin r.keys

\* C1: when the upstream call has failed k times, each time with an
\* overload/timeout signature, and k is below request_max_retries, the
\* extraction is not given up; when the next call succeeds, extract_text
\* returns the successful result (extracted_elements, no error marker) after
\* exactly k backoff waits and k+1 upstream calls.
C1_RetryThenSuccess ==
    /\ (pc = "extracted" /\ response = "reply") =>
          /\ n_fatal = 0
          /\ n_transient < request_max_retries
          /\ Succeeded(result)
          /\ waits = n_transient
          /\ calls = n_transient + 1
    /\ (n_fatal = 0 /\ n_transient >= 1 /\ n_transient < request_max_retries) =>
          /\ pc \in {"sleep", "call", "extracted"}
          /\ pc = "extracted" => response = "reply"

\* C1 witness: attempts 1 and 2 failed with transient errors, attempt 3
\* succeeded, and the result is returned after two waits and three calls.
C1_Witness ==
    /\ pc = "extracted"
    /\ response = "reply"
    /\ n_transient = 2
    /\ waits = 2
    /\ calls = 3
    /\ Succeeded(result)

\* C2: an upstream failure without a transient signature ends the
\* extraction at once: no further call, no further wait, no exception
\* leaves extract_text, and the returned dict has the error marker and no
\* extracted_elements.
C2_FatalErrorReturnsMarker ==
    n_fatal > 0 =>
        /\ pc = "extracted"
        /\ n_fatal = 1
        /\ ~HasTransientSignature(last_err)
        /\ calls = n_transient + 1
        /\ waits = n_transient
        /\ response = None
        /\ Errored(result)

\* C2 witness: an authentication error on the second attempt is returned as
\* an error dict.
C2_Witness ==
    /\ pc = "extracted"
    /\ last_err.name = "authentication_error"
    /\ n_fatal = 1
    /\ calls = 2
    /\ waits = 1
    /\ Errored(result)

SideDone(p, r) ==
    IF p = NoPath THEN r.raw = NoResult
    ELSE /\ r.raw.source_file = p
         /\ (p \in failed => Errored(r.raw))
         /\ (p \notin failed => Succeeded(r.raw))

\* C3: the run never aborts on a failing image: no exception leaves
\* process_directory, the run can always take a step until it is done, the
\* records appended so far are those of the pairs before the loop position,
\* one per pair and in list order, each side of a record holds the result
\* of that pair's image, an error result when that image failed, and at
\* the end there is a record for every pair.
C3_RunNeverAborts ==
    /\ pc # "aborted"
    /\ (pc # "done" => ENABLED Next)
    /\ Len(results_db) = pi - 1
    /\ pi <= Len(pairs) + 1
    /\ \A i \in 1..Len(results_db) :
          /\ results_db[i].photo_id = pairs[i].id
          /\ SideDone(pairs[i].front, results_db[i].front)
          /\ SideDone(pairs[i].back, results_db[i].back)
    /\ (pc = "done" => Len(results_db) = Len(pairs))

\* C3 witness: the run is done, the front image of the first pair failed,
\* and the back of the first pair and the second pair were still processed.
C3_Witness ==
    /\ pc = "done"
    /\ Len(pairs) = 2
    /\ pairs[1].front \in failed
    /\ Errored(results_db[1].front.raw)
    /\ Succeeded(results_db[1].back.raw)
    /\ Succeeded(results_db[2].front.raw)

\* C4: the retry loop is bounded: at most request_max_retries upstream
\* calls and request_max_retries - 1 waits, an extraction in progress can
\* always take its next step, and when every attempt failed with a
\* transient signature the error is returned after exactly
\* request_max_retries calls, with the error marker.
C4_RetryLoopBounded ==
    /\ calls <= request_max_retries
    /\ waits <= request_max_retries - 1
    /\ attempt <= request_max_retries - 1
    /\ waits = attempt
    /\ (pc \in {"optimize", "call", "sleep"} => ENABLED Next)
    /\ (pc = "extracted" /\ response = None /\ n_fatal = 0 /\ calls > 0) =>
          /\ calls = request_max_retries
          /\ n_transient = request_max_retries
          /\ waits = request_max_retries - 1
          /\ Errored(result)

\* C4 witness: every one of the request_max_retries attempts failed with a
\* transient error and the error dict is returned.
C4_Witness ==
    /\ pc = "extracted"
    /\ n_transient = request_max_retries
    /\ calls = request_max_retries
    /\ waits = request_max_retries - 1
    /\ Errored(result)

\* C5: an upstream error with a rate-limit signature is retried like an
\* overload or a timeout: it ends the extraction only at the retry ceiling.
C5_RateLimitRetried ==
    (pc = "extracted" /\ response = None /\ "rate_limit" \in last_err.toks)
        => calls = request_max_retries

-----------------------------------------------------------------------------
(* Properties of _create_pairs, under SpecPairs *)

Created(st) == pairer.pc = "done" /\ pairer.strategy = st
FilesOf(files) == { files[i] : i \in 1..Len(files) }
HasToken(file, token) == Contains(lower(stem(file)), token)

\* C7: every pair _create_pairs emits, under each of the three strategies,
\* has its front or its back set.
C7_NeverBothAbsent ==
    pairer.pc = "done" =>
        \A i \in 1..Len(pairer.pairs) :
            pairer.pairs[i].front # NoFile \/ pairer.pairs[i].back # NoFile

\* C7 witness: an auto pairing that emitted a pair from an unmarked file
\* (front only) and a pair from a lone back file (back only).
C7_Witness ==
    /\ Created("auto")
    /\ \E i \in 1..Len(pairer.pairs) :
          /\ pairer.pairs[i].back = NoFile
          /\ ~HasToken(pairer.pairs[i].front, FRONT)
    /\ \E i \in 1..Len(pairer.pairs) :
          /\ pairer.pairs[i].front = NoFile
          /\ pairer.pairs[i].back # NoFile

\* the group key as C8 words it: the base name, lower-cased, without the
\* tokens "front" and "back" and without underscores
C8_Key(file) ==
    remove(remove(remove(lower(stem(file)), FRONT), BACK), <<"_">>)

\* C8: under the auto strategy a front file and a back file whose names
\* agree once the tokens and the underscores are removed are emitted as one
\* pair with both sides set, and a file with neither token is emitted as
\* its own front-only pair.
C8_AutoGroupsByKey ==
    Created("auto") =>
        /\ \A f, g \in FilesOf(pairer.files) :
              ( /\ HasToken(f, FRONT)
                /\ HasToken(g, BACK) /\ ~HasToken(g, FRONT)
                /\ C8_Key(f) = C8_Key(g) )
              => \E i \in 1..Len(pairer.pairs) :
                    pairer.pairs[i].front = f /\ pairer.pairs[i].back = g
        /\ \A f \in FilesOf(pairer.files) :
              (~HasToken(f, FRONT) /\ ~HasToken(f, BACK))
              => \E i \in 1..Len(pairer.pairs) :
                    pairer.pairs[i].front = f /\ pairer.pairs[i].back = NoFile

\* C9: under the sequential strategy n files give ceil(n/2) pairs in input
\* order, pair i (from 0) with front = file 2i and back = file 2i+1; the
\* back is unset only in the last pair and only when n is odd.
C9_SequentialPairs ==
    Created("sequential") =>
        LET n == Len(pairer.files)
            m == Len(pairer.pairs)
        IN  /\ 2 * m \in {n, n + 1}
            /\ \A k \in 1..m :
                  /\ pairer.pairs[k].front = pairer.files[2 * k - 1]
                  /\ pairer.pairs[k].back =
                        IF 2 * k <= n THEN pairer.files[2 * k] ELSE NoFile
                  /\ (pairer.pairs[k].back = NoFile) <=> (k = m /\ n % 2 = 1)

\* C9 witness: three files gave two pairs, the second with an unset back.
C9_Witness ==
    /\ Created("sequential")
    /\ Len(pairer.files) = 3
    /\ Len(pairer.pairs) = 2
    /\ pairer.pairs[1].back = pairer.files[2]
    /\ pairer.pairs[2].front = pairer.files[3]
    /\ pairer.pairs[2].back = NoFile

\* C14: under every strategy each file of the list handed to _create_pairs
\* is the front or the back of exactly one emitted pair.
C14_EveryFileInOnePair ==
    pairer.pc = "done" =>
        \A f \in FilesOf(pairer.files) :
            Cardinality({ i \in 1..Len(pairer.pairs) :
                            pairer.pairs[i].front = f }) +
            Cardinality({ i \in 1..Len(pairer.pairs) :
                            pairer.pairs[i].back = f }) = 1


-----------------------------------------------------------------------------
(* Properties of _flexible_date_parse, under SpecDate *)

\* the date the compact string of the call denotes, when it is one
C10_Year == (IF dater.yy >= 30 THEN 1900 ELSE 2000) + dater.yy
C10_Denotes == ValidDate(C10_Year, dater.mo, dater.d)

\* C10: for a compact string "d m'yy" that denotes a calendar date the
\* result has year 1900+yy when yy >= 30 and 2000+yy otherwise, month m,
\* day d, and iso the date written YYYY-MM-DD.
C10_CompactDate ==
    (dater.pc = "done" /\ C10_Denotes) =>
        /\ dater.parsed.branch = "compact"
        /\ dater.parsed.year = C10_Year
        /\ dater.parsed.month = dater.mo
        /\ dater.parsed.day = dater.d
        /\ dater.parsed.iso =
              Pad4(C10_Year) \o <<"-">> \o Pad2(dater.mo) \o <<"-">> \o Pad2(dater.d)

-----------------------------------------------------------------------------
(* Properties of _parse_raw_response, under SpecParse *)

\* C6: no entry of all_text_lines starts, case-insensitively, with a
\* disallowed meta-commentary prefix, whatever white space and bullet
\* markers the reply put before the line.
C6_NoMetaCommentary ==
    parser.pc = "done" =>
        \A i \in 1..Len(parser.all_text_lines) :
            \A pfx \in disallowed_prefixes :
                ~startswith(lower(parser.all_text_lines[i]), pfx)

\* C6 witness: the reply's second line is a tab, a bullet and a blank before
\* "THIS IMAGE"; it is dropped and the line of content before it is kept.
C6_Witness ==
    /\ parser.pc = "done"
    /\ parser.raw_response =
          ContentLine \o <<"\n", "\t", "U+2022", " ">>
          \o <<"T", "H", "I", "S", " ", "I", "M", "A", "G", "E">>
    /\ parser.all_text_lines = <<ContentLine>>

\* C15: every entry of all_text_lines is a non-empty string that neither
\* starts nor ends with white space and does not start with a bullet
\* marker; a line of bullet markers and blanks alone gives no entry.
C15_EntriesAreClean ==
    parser.pc = "done" =>
        \A i \in 1..Len(parser.all_text_lines) :
            LET line == parser.all_text_lines[i]
            IN  /\ line # << >>
                /\ ~IsSpace(line[1])
                /\ ~IsSpace(line[Len(line)])
                /\ line[1] \notin {"-", "U+2022"}


-----------------------------------------------------------------------------
(* Properties of analyze_and_learn and _decompose_code, under SpecLearn *)

Analysed == learner.pc = "done"
PotentialCodes ==
    { learner.extracted_elements.potential_codes[i] :
        i \in 1..Len(learner.extracted_elements.potential_codes) }

\* C11: the mapping analyze_and_learn returns holds, for each string of
\* potential_codes, a record of type "code" with its pattern and its
\* components under that string, also when the string is one of
\* potential_dates and parses as a date; _merge_metadata then collects a
\* code record for every potential code of the side.
C11_CodeRecordForEveryCode ==
    Analysed =>
        \A code \in PotentialCodes :
            /\ \E i \in 1..Len(learner.identified_patterns) :
                  /\ learner.identified_patterns[i].key = code
                  /\ learner.identified_patterns[i].value.type = "code"
            /\ \E i \in 1..Len(OfType(learner.identified_patterns, "code")) :
                  OfType(learner.identified_patterns, "code")[i] =
                      [type |-> "code", pattern |-> derive_pattern(code),
                       components |-> decompose_code(code)]

\* the fragments as C13 words them: the maximal non-empty runs of
\* characters of text that are no separators, in their order
RECURSIVE C13_Fragments(_)
C13_Fragments(text) ==
    IF text = << >> THEN << >>
    ELSE IF Head(text) \in SeparatorChars THEN C13_Fragments(Tail(text))
    ELSE LET n == CHOOSE k \in 1..Len(text) :
                    /\ \A j \in 1..k : text[j] \notin SeparatorChars
                    /\ k < Len(text) => text[k + 1] \in SeparatorChars
         IN  <<SubSeq(text, 1, n)>>
             \o C13_Fragments(SubSeq(text, n + 1, Len(text)))

\* C13: the components of a code are exactly the maximal non-empty
\* fragments of its text between runs of separators, in their order; no
\* component contains a separator character.
C13_ComponentsHoldNoSeparator ==
    Analysed =>
        \A i \in 1..Len(learner.identified_patterns) :
            LET item == learner.identified_patterns[i]
            IN  item.value.type = "code" =>
                  /\ item.value.components = C13_Fragments(item.key)
                  /\ \A j \in 1..Len(item.value.components) :
                        \A k \in 1..Len(item.value.components[j]) :
                            item.value.components[j][k] \notin SeparatorChars

-----------------------------------------------------------------------------
(* Properties of the pattern library in the collection run, under Spec *)

\* the sides analysed so far, in the order of their analysis
RECURSIVE C12_Sides(_)
C12_Sides(photos) ==
    IF photos = << >> THEN << >>
    ELSE SelectSeq(<<Head(photos).front, Head(photos).back>>,
                   LAMBDA s : s # NoSide)
         \o C12_Sides(Tail(photos))
C12_Analysed == C12_Sides(results_db \o <<record>>)

\* the number of potential_codes entries of these sides, repeats counted
RECURSIVE C12_Total(_)
C12_Total(sides) ==
    IF sides = << >> THEN 0
    ELSE Len(Head(sides).elements.potential_codes) + C12_Total(Tail(sides))

C12_IsPrefix(s, t) == Len(s) <= Len(t) /\ s = SubSeq(t, 1, Len(s))

\* C12: discovered_patterns["codes"] only grows by appending: every entry
\* stays where it is, the length of the list is the number of
\* potential_codes entries, repeats counted, of all the sides analysed so
\* far, and a side whose extraction ended in an error leaves the list as
\* it is.
C12_CodesOnlyAppended ==
    /\ [](Len(discovered) = C12_Total(C12_Analysed))
    /\ [][ /\ C12_IsPrefix(discovered, discovered')
           /\ (pc = "extracted" /\ Errored(result)) => discovered' = discovered
         ]_vars

\* C12 witness: the run is done; the front of the first photo ended in an
\* error, its back and the front of the second photo each gave the same
\* code twice, and the list holds the four patterns.
C12_Witness ==
    /\ pc = "done"
    /\ Len(results_db) = 2
    /\ Errored(results_db[1].front.raw)
    /\ Len(results_db[1].back.elements.potential_codes) = 2
    /\ Len(results_db[2].front.elements.potential_codes) = 2
    /\ results_db[2].back = NoSide
    /\ discovered = << <<"A", "A", "D">>, <<"A", "A", "D">>,
                       <<"A", "A", "D">>, <<"A", "A", "D">> >>

=============================================================================
